---- MODULE Spec2Model ----
(***************************************************************************)
(* A model of the bitcoin-peg state machine: the transaction handlers of   *)
(* src/src/index.js (headers, deposit, signatory key) over the state the   *)
(* initializer builds, and the signatory-set selector of reserve.ts        *)
(* (src/unnamed/part_000).                                                 *)
(*                                                                         *)
(* Representation of values                                                *)
(*   - a validator (consensus) key is held by the program as a base64      *)
(*     string.  A string is a sequence of UTF-16 code units; the raw key   *)
(*     it encodes is the sequence of the 6-bit digits of those characters. *)
(*   - a Buffer is a record of its length and what it holds.               *)
(*   - an ed25519 signature records the key pair that made it and the      *)
(*     message signed: verification succeeds for that pair only.           *)
(***************************************************************************)
EXTENDS Integers, Sequences, FiniteSets, TLC

\* ------------------------------------------------------------------------
\* Program constants
\* ------------------------------------------------------------------------

MAX_SIGNATORIES == 76

SIGNATORY_KEY_LENGTH == 33

SIGNATURE_LENGTH == 64

\* ------------------------------------------------------------------------
\* Bounds of the model
\* ------------------------------------------------------------------------

\* Entries of a small validator map, and re-insertions applied to one.
MaxValidators == 3

MaxReinserts == 2

\* ------------------------------------------------------------------------
\* Base64 strings
\* ------------------------------------------------------------------------

Min(a, b) == IF a < b THEN a ELSE b

\* The code unit of the base64 character of a 6-bit digit:
\* A-Z (65..90), a-z (97..122), 0-9 (48..57), + (43), / (47).
b64char(d) ==
  IF d < 26 THEN 65 + d
  ELSE IF d < 52 THEN 97 + (d - 26)
  ELSE IF d < 62 THEN 48 + (d - 52)
  ELSE IF d = 62 THEN 43
  ELSE 47

\* The 6-bit digit of a base64 character.
b64digit(c) ==
  IF c >= 65 /\ c <= 90 THEN c - 65
  ELSE IF c >= 97 /\ c <= 122 THEN c - 97 + 26
  ELSE IF c >= 48 /\ c <= 57 THEN c - 48 + 52
  ELSE IF c = 43 THEN 62
  ELSE 63

\* buf.toString('base64') and Buffer.from(str, 'base64') on a raw key.
toBase64(raw) == [i \in 1..Len(raw) |-> b64char(raw[i])]

fromBase64(str) == [i \in 1..Len(str) |-> b64digit(str[i])]

\* Lexicographic order of two sequences of numbers: JavaScript's `<` on
\* strings (code units), and byte order on raw keys (digits).
RECURSIVE SeqLess(_, _)
SeqLess(a, b) ==
  IF b = <<>> THEN FALSE
  ELSE IF a = <<>> THEN TRUE
  ELSE IF Head(a) # Head(b) THEN Head(a) < Head(b)
  ELSE SeqLess(Tail(a), Tail(b))

\* ------------------------------------------------------------------------
\* reserve.ts: the signatory-set selector
\* ------------------------------------------------------------------------

\* A validator map is the sequence of its entries <<key string, power>> in
\* insertion order, which is the order Object.entries lists them in.

\* The sort's comparator with the tie-break left out.
compareNoTieBreak(a, b) == b[2] - a[2]

\* The sort's comparator with the tie-break the other way round.
compareTieDescending(a, b) ==
  LET cmp == b[2] - a[2]
  IN  IF cmp = 0 THEN (IF SeqLess(a[1], b[1]) THEN 1 ELSE -1) ELSE cmp

\* The comparator handed to entries.sort: positive when a goes after b.
compareEntries(a, b) ==
  LET cmp == b[2] - a[2]
  IN  IF cmp = 0 THEN (IF SeqLess(b[1], a[1]) THEN 1 ELSE -1) ELSE cmp

\* Array.prototype.sort with that comparator.  The sort is stable: an entry
\* goes after the entries the comparator puts before it and after the
\* earlier entries it compares equal to.  rank[i] is the place of entry i.
sortEntries(entries) ==
  LET n == Len(entries)
      rank == [i \in 1..n |->
                 1 + Cardinality({j \in 1..n :
                       /\ j # i
                       /\ LET cmp == compareEntries(entries[j], entries[i])
                          IN  cmp < 0 \/ (cmp = 0 /\ j < i)})]
  IN  [r \in 1..n |-> entries[CHOOSE i \in 1..n : rank[i] = r]]

getSignatorySet(validators) ==
  LET map(sorted) ==
        [i \in 1..Len(sorted) |->
           [validatorKey |-> sorted[i][1], votingPower |-> sorted[i][2]]]
      slice(mapped) == SubSeq(mapped, 1, Min(Len(mapped), MAX_SIGNATORIES))
  IN  slice(map(sortEntries(validators)))

\* A sum of voting powers and a threshold are JavaScript numbers that can
\* pass 2^31 and 2^32: such a number n is held as [hi, lo] with
\* n = hi * 2^16 + lo and 0 <= lo < 2^16 (hi < 0 for a negative n).
num(n) == [hi |-> n \div 65536, lo |-> n % 65536]

\* The number as an integer, for a number below 2^31.
value(a) == a.hi * 65536 + a.lo

plus(a, b) ==
  [hi |-> a.hi + b.hi + (a.lo + b.lo) \div 65536, lo |-> (a.lo + b.lo) % 65536]

\* Math.ceil(a * m / d) for small integers m and d, a >= 0.
ceilOfQuotient(a, m, d) ==
  LET high == a.hi * m
      low  == (high % d) * 65536 + a.lo * m + (d - 1)
  IN  [hi |-> high \div d + (low \div d) \div 65536, lo |-> (low \div d) % 65536]

\* getVotingPowerThreshold: Math.ceil((totalVotingPower * 2) / 3)
RECURSIVE totalVotingPower(_)
totalVotingPower(signatories) ==
  IF signatories = <<>> THEN num(0)
  ELSE plus(num(Head(signatories).votingPower), totalVotingPower(Tail(signatories)))

\* A threshold of half of the power.
getVotingPowerThresholdHalf(signatories) ==
  ceilOfQuotient(totalVotingPower(signatories), 1, 2)

getVotingPowerThreshold(signatories) ==
  ceilOfQuotient(totalVotingPower(signatories), 2, 3)

\* createWitnessScript, lines 76-86: the members of the signatory set that
\* have a key in the registry, each with its key (in hex) and voting power.
scriptSignatories(validators, signatoryKeys) ==
  LET withKey(committed) ==
        [i \in 1..Len(committed) |->
           [pubkey      |-> signatoryKeys[committed[i].validatorKey].id,
            votingPower |-> committed[i].votingPower]]
  IN  withKey(SelectSeq(getSignatorySet(validators),
                        LAMBDA v : v.validatorKey \in DOMAIN signatoryKeys))

\* ------------------------------------------------------------------------
\* reserve.ts: the script assembler
\* ------------------------------------------------------------------------

\* A script is the sequence of its items, as script.fromASM compiles the
\* trimmed text: an opcode, or the push of the bytes of a hex token.  The
\* bytes of a public key and of a signature are held by the name of the key
\* (`key`) and of the key that signed (`by`).
Op(name) == [op |-> name, key |-> "", by |-> "", bytes |-> <<>>]

PushKey(id) == [op |-> "PUSH", key |-> id, by |-> "", bytes |-> <<>>]

PushBytes(b) == [op |-> "PUSH", key |-> "", by |-> "", bytes |-> b]

\* The push of a signature made with the private key of public key `id`.
PushSig(id) == [op |-> "PUSH", key |-> "", by |-> id, bytes |-> <<>>]

\* n.toString(16), padded to an even number of digits, read two digits at a
\* time: the bytes of n, the most significant first, at least one.
RECURSIVE hexBytes(_)
hexBytes(n) ==
  IF n < 256 THEN <<n>> ELSE Append(hexBytes(n \div 256), n % 256)

\* uint, of a number [hi, lo]: [hex |-> the bytes of the hex string,
\* error |-> what it throws].  n > 0xffffffff is hi > 2^16 - 1, n < 0 is
\* hi < 0; the digits of hi come before the four digits of lo.
uint(n) ==
  IF n.hi > 65535 \/ n.hi < 0
    THEN [hex |-> <<>>, error |-> "Number must be >= 0 and < 2^32"]
  ELSE IF n.hi = 0 THEN [hex |-> hexBytes(n.lo), error |-> ""]
  ELSE [hex |-> hexBytes(n.hi) \o <<n.lo \div 256, n.lo % 256>>, error |-> ""]

\* firstSignatory, nthSignatory and compare: the items of each template.
firstSignatory(signatory) ==
  <<PushKey(signatory.pubkey), Op("OP_CHECKSIG"),
    Op("OP_IF"),
      PushBytes(uint(num(signatory.votingPower)).hex),
    Op("OP_ELSE"),
      Op("OP_0"),
    Op("OP_ENDIF")>>

nthSignatory(signatory) ==
  <<Op("OP_SWAP"),
      PushKey(signatory.pubkey), Op("OP_CHECKSIG"),
    Op("OP_IF"),
      PushBytes(uint(num(signatory.votingPower)).hex),
      Op("OP_ADD"),
    Op("OP_ENDIF")>>

compare(threshold) ==
  <<PushBytes(uint(threshold).hex), Op("OP_GREATERTHAN")>>

RECURSIVE concat(_)
concat(seqs) == IF seqs = <<>> THEN <<>> ELSE Head(seqs) \o concat(Tail(seqs))

\* createWitnessScript: [script, threshold (twoThirdsVotingPower), error].
\* With no committed signatory, signatories[0] is undefined and
\* firstSignatory throws on reading its pubkey; a voting power or a
\* threshold that uint refuses throws uint's error.
createWitnessScript(validators, signatoryKeys) ==
  LET assemble(signatories, twoThirdsVotingPower, refused) ==
        IF signatories = <<>>
          THEN [script |-> <<>>, threshold |-> twoThirdsVotingPower,
                error |-> "TypeError: Cannot read property 'pubkey' of undefined"]
        ELSE IF refused # {}
          THEN [script |-> <<>>, threshold |-> twoThirdsVotingPower,
                error |-> uint(num(signatories[CHOOSE i \in refused : TRUE].votingPower)).error]
        ELSE IF uint(twoThirdsVotingPower).error # ""
          THEN [script |-> <<>>, threshold |-> twoThirdsVotingPower,
                error |-> uint(twoThirdsVotingPower).error]
        ELSE [script |-> firstSignatory(signatories[1])
                           \o concat([i \in 1..(Len(signatories) - 1) |->
                                        nthSignatory(signatories[i + 1])])
                           \o compare(twoThirdsVotingPower),
              threshold |-> twoThirdsVotingPower,
              error |-> ""]
      withSignatories(signatories) ==
        assemble(signatories, getVotingPowerThreshold(signatories),
                 {i \in 1..Len(signatories) :
                    uint(num(signatories[i].votingPower)).error # ""})
  IN  withSignatories(scriptSignatories(validators, signatoryKeys))

\* signature(): the token of a slot, 'OP_0' for a slot that holds nothing.
\* A slot is the name of the key that signed, "" when it is empty.
signatureOrOp0(slot) == IF slot = "" THEN Op("OP_0") ELSE PushSig(slot)

\* createScriptSig: signatures.map(signature).reverse()
createScriptSig(signatures) ==
  LET n == Len(signatures)
  IN  [i \in 1..n |-> signatureOrOp0(signatures[n + 1 - i])]

\* ------------------------------------------------------------------------
\* reserve.ts: the disbursal builder
\* ------------------------------------------------------------------------

MIN_RELAY_FEE == 1000

RECURSIVE sumOver(_, _)
sumOver(f, n) == IF n = 0 THEN 0 ELSE f[n] + sumOver(f, n - 1)

\* An output script is held by its name, its length in bytes and, for a
\* pay-to-witness-script-hash script, the witness script it commits to.
\* createOutput: the P2WSH script of the witness script, 34 bytes (OP_0 and
\* the push of a SHA-256 hash), or the error createWitnessScript throws.
createOutput(validators, signatoryKeys, network) ==
  LET p2wsh(p2ss) ==
        [output |-> [id |-> "p2wsh", length |-> 34, redeem |-> p2ss.script],
         error  |-> p2ss.error]
  IN  p2wsh(createWitnessScript(validators, signatoryKeys))

\* Sizes of bitcoinjs-lib's serialization: a variable-length integer, and a
\* byte string behind its length.
varuintSize(n) == IF n < 253 THEN 1 ELSE IF n <= 65535 THEN 3 ELSE 5

varSliceSize(length) == varuintSize(length) + length

\* Transaction.byteLength() of a transaction without witnesses: version and
\* locktime, the two counts, 40 bytes and an empty script per input, 8 bytes
\* and the script per output.
byteLength(btx) ==
  8 + varuintSize(Len(btx.ins)) + varuintSize(Len(btx.outs))
    + sumOver([i \in 1..Len(btx.ins) |-> 40 + varSliceSize(0)], Len(btx.ins))
    + sumOver([i \in 1..Len(btx.outs) |-> 8 + varSliceSize(btx.outs[i].script.length)],
              Len(btx.outs))

\* The fee of each withdrawal rounded down instead of up.
feeAmountPerWithdrawalFloor(feeAmount, n) ==
  IF n = 0 THEN 0 ELSE feeAmount \div n

\* Math.ceil(feeAmount / outputs.length).  With no outputs the quotient is
\* Infinity, which nothing reads: the loop over the outputs does not run.
feeAmountPerWithdrawal(feeAmount, n) ==
  IF n = 0 THEN 0 ELSE (feeAmount + n - 1) \div n

NoBitcoinTx == [ins |-> <<>>, outs |-> <<>>]

\* buildOutgoingTx: [tx, error].  tx.outs holds the user outputs in order
\* and the change output last.
buildOutgoingTx(signingTx, validators, signatoryKeys, network) ==
  LET inputs  == signingTx.inputs
      outputs == signingTx.outputs
      n       == Len(outputs)
      remainingAfter(totalAmount, j) ==
        totalAmount - sumOver([i \in 1..j |-> outputs[i].amount], j)
      \* tx after the loops over the inputs and the outputs and the change
      added(p2ss, remainingAmount) ==
        [ins  |-> [i \in 1..Len(inputs) |->
                     [txid |-> inputs[i].txid, index |-> inputs[i].index]],
         outs |-> Append([i \in 1..n |->
                            [script |-> outputs[i].script, value |-> outputs[i].amount]],
                         [script |-> p2ss.output, value |-> remainingAmount])]
      feeAmount(txLength) ==
        IF txLength > MIN_RELAY_FEE THEN txLength ELSE MIN_RELAY_FEE
      \* tx after the loop that takes the fee from the outputs
      pay(unpaid, perWithdrawal) ==
        [unpaid EXCEPT !.outs =
           [i \in 1..(n + 1) |->
              IF i <= n THEN [@[i] EXCEPT !.value = @ - perWithdrawal] ELSE @[i]]]
      payFee(unpaid) ==
        pay(unpaid, feeAmountPerWithdrawal(feeAmount(byteLength(unpaid)), n))
      result(paid) ==
        IF \E i \in 1..n : paid.outs[i].value <= 0
          THEN [tx |-> NoBitcoinTx, error |-> "Output is not large enough to pay fee"]
        ELSE [tx |-> paid, error |-> ""]
      build(totalAmount, p2ss) ==
        IF \E j \in 1..n : remainingAfter(totalAmount, j) <= 0
          THEN [tx |-> NoBitcoinTx, error |-> "Output amount exceeds input amount"]
        ELSE IF p2ss.error # ""
          THEN [tx |-> NoBitcoinTx, error |-> p2ss.error]
        ELSE result(payFee(added(p2ss, remainingAfter(totalAmount, n))))
  IN  build(sumOver([i \in 1..Len(inputs) |-> inputs[i].amount], Len(inputs)),
            createOutput(validators, signatoryKeys, network))

\* ------------------------------------------------------------------------
\* Bitcoin: script numbers and the evaluation of a witness script
\* ------------------------------------------------------------------------

RECURSIVE pow256(_)
pow256(i) == IF i = 0 THEN 1 ELSE 256 * pow256(i - 1)

\* CScriptNum: the number a byte vector stands for.  Little-endian
\* magnitude, the top bit of the last byte is the sign.
scriptNum(b) ==
  LET n   == Len(b)
      mag == sumOver([i \in 1..n |->
                        (IF i = n THEN b[i] % 128 ELSE b[i]) * pow256(i - 1)], n)
  IN  IF n = 0 THEN 0 ELSE IF b[n] >= 128 THEN 0 - mag ELSE mag

\* CScriptNum::serialize: the shortest byte vector of a number.
RECURSIVE littleEndian(_)
littleEndian(n) ==
  IF n = 0 THEN <<>> ELSE <<n % 256>> \o littleEndian(n \div 256)

scriptNumBytes(n) ==
  LET abs == IF n < 0 THEN 0 - n ELSE n
      le  == littleEndian(abs)
      top == Len(le)
  IN  IF n = 0 THEN <<>>
      ELSE IF le[top] >= 128 THEN Append(le, IF n < 0 THEN 128 ELSE 0)
      ELSE IF n < 0 THEN [le EXCEPT ![top] = @ + 128]
      ELSE le

\* Elements of the stack: a byte vector, a public key, or a signature made
\* with the private key of a public key (`by`).
Bytes(b) == [key |-> "", by |-> "", bytes |-> b]

KeyElem(id) == [key |-> id, by |-> "", bytes |-> <<1>>]

SigElem(id) == [key |-> "", by |-> id, bytes |-> <<1>>]

\* CastToBool: some byte is not zero (a lone sign bit in the last is zero).
castToBool(e) ==
  \E i \in 1..Len(e.bytes) :
    /\ e.bytes[i] # 0
    /\ ~(i = Len(e.bytes) /\ e.bytes[i] = 128)

BoolElem(v) == Bytes(IF v THEN <<1>> ELSE <<>>)

\* A number operand: a byte vector of at most 4 bytes.
isNum(e) == e.key = "" /\ e.by = "" /\ Len(e.bytes) <= 4

Failed == [ok |-> FALSE, stack |-> <<>>, checks |-> <<>>]

\* EvalScript over the opcodes the witness script uses.  The top of the
\* stack is its last element; conds holds, for each open OP_IF, whether its
\* branch is being executed; checks lists, for each OP_CHECKSIG executed,
\* the public key and the signature it took from the stack.
RECURSIVE evalScript(_, _, _, _)
evalScript(script, stack, conds, checks) ==
  IF script = <<>> THEN [ok |-> conds = <<>>, stack |-> stack, checks |-> checks]
  ELSE
    LET item  == Head(script)
        rest  == Tail(script)
        exec  == \A i \in 1..Len(conds) : conds[i]
        n     == Len(stack)
        top   == stack[n]
        below == stack[n - 1]
        pop1  == SubSeq(stack, 1, n - 1)
        pop2  == SubSeq(stack, 1, n - 2)
    IN  IF item.op = "OP_IF" THEN
          IF ~exec THEN evalScript(rest, stack, Append(conds, FALSE), checks)
          ELSE IF n < 1 THEN Failed
          ELSE evalScript(rest, pop1, Append(conds, castToBool(top)), checks)
        ELSE IF item.op = "OP_ELSE" THEN
          IF conds = <<>> THEN Failed
          ELSE evalScript(rest, stack, [conds EXCEPT ![Len(conds)] = ~@], checks)
        ELSE IF item.op = "OP_ENDIF" THEN
          IF conds = <<>> THEN Failed
          ELSE evalScript(rest, stack, SubSeq(conds, 1, Len(conds) - 1), checks)
        ELSE IF ~exec THEN evalScript(rest, stack, conds, checks)
        ELSE IF item.op = "PUSH" THEN
          evalScript(rest,
                     Append(stack, IF item.key # "" THEN KeyElem(item.key)
                                   ELSE IF item.by # "" THEN SigElem(item.by)
                                   ELSE Bytes(item.bytes)),
                     conds, checks)
        ELSE IF item.op = "OP_0" THEN
          evalScript(rest, Append(stack, Bytes(<<>>)), conds, checks)
        ELSE IF item.op = "OP_CHECKSIG" THEN
          IF n < 2 THEN Failed
          ELSE evalScript(rest,
                          Append(pop2, BoolElem(top.key # "" /\ below.by = top.key)),
                          conds,
                          Append(checks, [key |-> top.key, by |-> below.by]))
        ELSE IF item.op = "OP_SWAP" THEN
          IF n < 2 THEN Failed
          ELSE evalScript(rest, Append(Append(pop2, top), below), conds, checks)
        ELSE IF item.op = "OP_ADD" THEN
          IF n < 2 \/ ~isNum(top) \/ ~isNum(below) THEN Failed
          ELSE evalScript(rest,
                          Append(pop2, Bytes(scriptNumBytes(
                            scriptNum(below.bytes) + scriptNum(top.bytes)))),
                          conds, checks)
        ELSE IF item.op = "OP_GREATERTHAN" THEN
          IF n < 2 \/ ~isNum(top) \/ ~isNum(below) THEN Failed
          ELSE evalScript(rest,
                          Append(pop2, BoolElem(scriptNum(below.bytes) > scriptNum(top.bytes))),
                          conds, checks)
        ELSE Failed

\* A witness program is satisfied when the script runs through and leaves
\* exactly one element on the stack, a true one.
scriptAccepts(script, witness) ==
  LET r == evalScript(script, witness, <<>>, <<>>)
  IN  r.ok /\ Len(r.stack) = 1 /\ castToBool(r.stack[1])

\* ------------------------------------------------------------------------
\* Values the transactions carry
\* ------------------------------------------------------------------------

\* Raw ed25519 consensus keys, as 6-bit digits.  KeyA is below KeyB in byte
\* order; their base64 strings "AB" and "+A" compare the other way round.
KeyA == <<0, 1>>

KeyB == <<62, 0>>

ValidatorKeys == {KeyA, KeyB}

VotingPowers == {5, 10}

\* Buffers offered as a secp256k1 signatory key: a compressed point, 33 bytes
\* that are no point of the curve, and a buffer of 32 bytes.
NotABuffer == [isBuffer |-> FALSE, length |-> 0, id |-> "none", point |-> FALSE]

Point1 == [isBuffer |-> TRUE, length |-> SIGNATORY_KEY_LENGTH, id |-> "P1", point |-> TRUE]

NoPoint == [isBuffer |-> TRUE, length |-> SIGNATORY_KEY_LENGTH, id |-> "X", point |-> FALSE]

Short32 == [isBuffer |-> TRUE, length |-> SIGNATORY_KEY_LENGTH - 1, id |-> "S", point |-> FALSE]

\* secp.publicKeyVerify
publicKeyVerify(buf) == buf.isBuffer /\ buf.length = SIGNATORY_KEY_LENGTH /\ buf.point

\* ed.sign(message, pub, priv): the signature the holder of the private key
\* of raw key `pub` makes over `message`.
ed25519Sign(pub, message) ==
  [isBuffer |-> TRUE, length |-> SIGNATURE_LENGTH, signer |-> pub, msg |-> message.id]

\* 64 bytes nobody signed, a buffer of 63 bytes, and something that is no buffer.
ForgedSignature ==
  [isBuffer |-> TRUE, length |-> SIGNATURE_LENGTH, signer |-> <<>>, msg |-> "none"]

ShortSignature ==
  [isBuffer |-> TRUE, length |-> SIGNATURE_LENGTH - 1, signer |-> <<>>, msg |-> "none"]

NoSignature == [isBuffer |-> FALSE, length |-> 0, signer |-> <<>>, msg |-> "none"]

\* ed25519.verify(signature, message, publicKey)
ed25519Verify(signature, message, publicKey) ==
  /\ signature.length = SIGNATURE_LENGTH
  /\ signature.signer = publicKey
  /\ signature.msg = message.id

\* ------------------------------------------------------------------------
\* Bitcoin: headers, transactions, Merkle proofs
\* ------------------------------------------------------------------------

\* Height of the trusted header the peg starts from, and how many heights
\* above it the Bitcoin network of the model has blocks at.
StartHeight == 2016

NumBlocks == 2

\* The block at offset i above the trusted header, on branch br.  The two
\* branches fork right after the trusted header.
Header(i, br) ==
  [height     |-> StartHeight + i,
   hash       |-> IF i = 0 THEN 0 ELSE 2 * i + br,
   prevHash   |-> IF i = 0 THEN -1 ELSE IF i = 1 THEN 0 ELSE 2 * (i - 1) + br,
   merkleRoot |-> 100 + (IF i = 0 THEN 0 ELSE 2 * i + br)]

initialHeader == Header(0, 0)

Headers == {Header(i, br) : i \in 1..NumBlocks, br \in {0, 1}}

\* The header lists a headers transaction carries: heights ascending by one.
HeaderLists ==
  UNION {{r \in [1..n -> Headers] :
            \A i \in 2..n : r[i].height = r[i - 1].height + 1} : n \in 1..NumBlocks}

\* Bitcoin transactions (decoded): one paying 50 BTC to the signatory set and
\* committing to a recipient, one with no output to the signatory set.
\* Amounts are in units of 10^4 satoshi.
DepositPayment ==
  [n |-> 1, paysP2ss |-> TRUE, amount |-> 500000, recipient |-> "alice"]

OtherPayment ==
  [n |-> 2, paysP2ss |-> FALSE, amount |-> 0, recipient |-> "nobody"]

BtcTxs == {DepositPayment, OtherPayment}

\* getTxHash: the id of a transaction, one per transaction.
getTxHash(bitcoinTx) == 7000 + bitcoinTx.n

\* A Merkle proof: the height it names, the root its hashes add up to, and
\* the txids it marks as matched.
TxidLists ==
  {<<>>} \cup {<<getTxHash(t)>> : t \in BtcTxs}
         \cup {<<getTxHash(t), getTxHash(u)>> : t \in {DepositPayment}, u \in {OtherPayment}}

Proofs ==
  [height : (StartHeight - 1)..(StartHeight + NumBlocks),
   root   : {Header(1, 0).merkleRoot, Header(1, 1).merkleRoot},
   txids  : TxidLists]

\* ------------------------------------------------------------------------
\* index.js: the handlers
\* ------------------------------------------------------------------------

\* A handler takes the state object and a transaction and gives the state
\* object as it leaves it together with the error it throws ("" for none).
\* State: [chain, signatoryKeys, processedTxs, utxos].

\* initializer
initializer ==
  [chain         |-> <<initialHeader>>,
   signatoryKeys |-> <<>>,
   processedTxs  |-> {},
   utxos         |-> <<>>]

\* chain.getByHeight: the index of the header at `height` in the store
\* (1-based), or 0 when the store holds none ('Header not found').
indexByHeight(chain, height) ==
  LET index == height - chain[1].height
  IN  IF index >= 0 /\ index < Len(chain) THEN index + 1 ELSE 0

\* A chain.add that takes the first header of the list only.
headersTxFirstOnly(state, tx) ==
  LET headers == tx.headers
      chain   == state.chain
      tip     == chain[Len(chain)].height
      index   == headers[1].height - chain[1].height
      prevAt  == indexByHeight(chain, headers[1].height - 1)
  IN  IF headers[1].height > tip + 1
        THEN [state |-> state, error |-> "Start of headers is ahead of chain tip"]
      ELSE IF headers[Len(headers)].height <= tip
        THEN [state |-> state, error |-> "New tip is not higher than current tip"]
      ELSE IF prevAt = 0 \/ headers[1].prevHash # chain[prevAt].hash
        THEN [state |-> state, error |-> "Header not connected"]
      ELSE [state |-> [state EXCEPT !.chain = SubSeq(chain, 1, index) \o <<headers[1]>>],
            error |-> ""]

\* chain.add(headers) of blockchain-spv.
headersTx(state, tx) ==
  LET headers == tx.headers
      chain   == state.chain
      tip     == chain[Len(chain)].height
      index   == headers[1].height - chain[1].height
      prevAt  == indexByHeight(chain, headers[1].height - 1)
      connected ==
        /\ prevAt # 0
        /\ headers[1].prevHash = chain[prevAt].hash
        /\ \A i \in 2..Len(headers) :
             /\ headers[i].height = headers[i - 1].height + 1
             /\ headers[i].prevHash = headers[i - 1].hash
  IN  IF headers[1].height > tip + 1
        THEN [state |-> state, error |-> "Start of headers is ahead of chain tip"]
      ELSE IF headers[Len(headers)].height <= tip
        THEN [state |-> state, error |-> "New tip is not higher than current tip"]
      ELSE IF ~connected
        THEN [state |-> state, error |-> "Header not connected"]
      ELSE [state |-> [state EXCEPT !.chain = SubSeq(chain, 1, index) \o headers],
            error |-> ""]

\* verifyMerkleProof: the txids the proof matches; it throws when the root
\* its hashes add up to is not the merkleRoot it was given.
merkleRootMatches(proof, merkleRoot) == proof.root = merkleRoot

\* depositTx without the check that the proof's txid is the transaction's.
depositTxAnyTxid(state, tx) ==
  LET txid   == getTxHash(tx.transaction)
      marked == [state EXCEPT !.processedTxs = @ \cup {txid}]
      at     == indexByHeight(state.chain, tx.proof.height)
  IN  IF txid \in state.processedTxs
        THEN [state |-> state, error |-> "Deposit transaction has already been processed"]
      ELSE IF at = 0
        THEN [state |-> marked, error |-> "Header not found"]
      ELSE IF ~merkleRootMatches(tx.proof, state.chain[at].merkleRoot)
        THEN [state |-> marked, error |-> "Calculated Merkle root does not match header"]
      ELSE IF Len(tx.proof.txids) # 1
        THEN [state |-> marked, error |-> "Expected exactly one txid included in proof"]
      ELSE [state |-> marked, error |-> ""]

\* depositTx: the txid is recorded in processedTxs (line 71) before the
\* header is looked up and the proof verified; nothing is appended to utxos
\* and nothing is minted (lines 89-95 are comments).
depositTx(state, tx) ==
  LET bitcoinTx == tx.transaction
      txid      == getTxHash(bitcoinTx)
      marked    == [state EXCEPT !.processedTxs = @ \cup {txid}]
      at        == indexByHeight(state.chain, tx.proof.height)
  IN  IF txid \in state.processedTxs
        THEN [state |-> state, error |-> "Deposit transaction has already been processed"]
      ELSE IF at = 0
        THEN [state |-> marked, error |-> "Header not found"]
      ELSE IF ~merkleRootMatches(tx.proof, state.chain[at].merkleRoot)
        THEN [state |-> marked, error |-> "Calculated Merkle root does not match header"]
      ELSE IF Len(tx.proof.txids) # 1
        THEN [state |-> marked, error |-> "Expected exactly one txid included in proof"]
      ELSE IF tx.proof.txids[1] # txid
        THEN [state |-> marked, error |-> "Merkle proof does not match given transaction"]
      ELSE [state |-> marked, error |-> ""]

\* signatoryKeyTx without the signature check.
signatoryKeyTxNoVerify(state, tx, validators) ==
  LET signatorySet == getSignatorySet(validators)
      n            == tx.signatoryIndex.n
  IN  IF ~tx.signatoryIndex.isInteger
        THEN [state |-> state, error |-> "Invalid signatory index"]
      ELSE IF tx.signatoryKey.length # SIGNATORY_KEY_LENGTH
        THEN [state |-> state, error |-> "Invalid signatory key length"]
      ELSE IF n < 0 \/ n >= Len(signatorySet)
        THEN [state |-> state, error |-> "TypeError: Cannot read property 'validatorKey' of undefined"]
      ELSE [state |-> [state EXCEPT !.signatoryKeys =
                         (signatorySet[n + 1].validatorKey :> tx.signatoryKey) @@ @],
            error |-> ""]

\* signatoryKeyTx.  signatorySet[signatoryIndex] is undefined for an index
\* outside the array, so reading its validatorKey (line 123) throws a
\* TypeError before the null check of line 124 is reached; every entry of
\* the set has a key, so that check never throws.
signatoryKeyTx(state, tx, validators) ==
  LET signatoryIndex == tx.signatoryIndex
      signatoryKey   == tx.signatoryKey
      signature      == tx.signature
      signatorySet   == getSignatorySet(validators)
      n              == signatoryIndex.n
  IN  IF ~signatoryIndex.isInteger
        THEN [state |-> state, error |-> "Invalid signatory index"]
      ELSE IF ~signatoryKey.isBuffer
        THEN [state |-> state, error |-> "Invalid signatory key"]
      ELSE IF signatoryKey.length # SIGNATORY_KEY_LENGTH
        THEN [state |-> state, error |-> "Invalid signatory key length"]
      ELSE IF ~signature.isBuffer
        THEN [state |-> state, error |-> "Invalid signature"]
      ELSE IF signature.length # SIGNATURE_LENGTH
        THEN [state |-> state, error |-> "Invalid signatory key length"]
      ELSE IF n < 0 \/ n >= Len(signatorySet)
        THEN [state |-> state, error |-> "TypeError: Cannot read property 'validatorKey' of undefined"]
      ELSE LET validatorKeyBase64 == signatorySet[n + 1].validatorKey
               validatorKey       == fromBase64(validatorKeyBase64)
           IN  IF ~ed25519Verify(signature, signatoryKey, validatorKey)
                 THEN [state |-> state, error |-> "Invalid signature"]
               ELSE [state |-> [state EXCEPT !.signatoryKeys =
                                  (validatorKeyBase64 :> signatoryKey) @@ @],
                     error |-> ""]

\* txHandler: the handler a transaction goes to is chosen by the field it has.
txHandler(state, tx, validators) ==
  IF tx.kind = "headers" THEN headersTx(state, tx)
  ELSE IF tx.kind = "deposit" THEN depositTx(state, tx)
  ELSE IF tx.kind = "signatoryKey" THEN signatoryKeyTx(state, tx, validators)
  ELSE [state |-> state, error |-> "Unknown transaction type"]

\* ------------------------------------------------------------------------
\* Transactions submitted to the peg
\* ------------------------------------------------------------------------

NoProof == [height |-> 0, root |-> 0, txids |-> <<>>]

Index(n) == [isInteger |-> TRUE, n |-> n]

NotAnInteger == [isInteger |-> FALSE, n |-> 0]

Tx(kind, headers, transaction, proof, signatoryIndex, signatoryKey, signature) ==
  [kind |-> kind, headers |-> headers, transaction |-> transaction, proof |-> proof,
   signatoryIndex |-> signatoryIndex, signatoryKey |-> signatoryKey,
   signature |-> signature]

NoTx == Tx("none", <<>>, OtherPayment, NoProof, NotAnInteger, NotABuffer, NoSignature)

HeadersTxs ==
  {Tx("headers", hs, OtherPayment, NoProof, NotAnInteger, NotABuffer, NoSignature) :
     hs \in HeaderLists}

DepositTxs ==
  {Tx("deposit", <<>>, t, pr, NotAnInteger, NotABuffer, NoSignature) :
     t \in BtcTxs, pr \in Proofs}

\* What a validator (or anybody else) can sign and submit: keys of either
\* length under signatures made with either consensus key over either
\* 33-byte value, or under bytes nobody signed.
Signatures ==
  {ed25519Sign(k, m) : k \in ValidatorKeys, m \in {Point1, NoPoint}}
    \cup {ForgedSignature, ShortSignature}

SignatoryKeyTxs ==
  {Tx("signatoryKey", <<>>, OtherPayment, NoProof, Index(i), key, sig) :
     i \in -1..Cardinality(ValidatorKeys), key \in {Point1, NoPoint, Short32},
     sig \in Signatures}
  \cup {Tx("signatoryKey", <<>>, OtherPayment, NoProof, NotAnInteger, Point1,
           ed25519Sign(KeyA, Point1)),
        Tx("signatoryKey", <<>>, OtherPayment, NoProof, Index(0), NotABuffer,
           ed25519Sign(KeyA, Point1)),
        Tx("signatoryKey", <<>>, OtherPayment, NoProof, Index(0), Point1, NoSignature)}

UnknownTx == Tx("unknown", <<>>, OtherPayment, NoProof, NotAnInteger, NotABuffer, NoSignature)

\* ------------------------------------------------------------------------
\* Validator maps
\* ------------------------------------------------------------------------

\* The maps over a set of raw keys with at most n entries, in every
\* insertion order.
OrderedMaps(keys, n) ==
  UNION {{m \in [1..len -> {<<toBase64(k), p>> : k \in keys, p \in VotingPowers}] :
            \A i, j \in 1..len : i # j => m[i][1] # m[j][1]} :
         len \in 0..Min(n, Cardinality(keys))}

\* validators[key] = power: a new key is added last, a known key keeps its
\* place.
setPower(validators, key, power) ==
  IF \E i \in 1..Len(validators) : validators[i][1] = key
    THEN [i \in 1..Len(validators) |->
            IF validators[i][1] = key THEN <<key, power>> ELSE validators[i]]
    ELSE Append(validators, <<key, power>>)

\* delete validators[key]
deleteKey(validators, key) == SelectSeq(validators, LAMBDA e : e[1] # key)

\* ------------------------------------------------------------------------
\* The state machine
\* ------------------------------------------------------------------------

\* A P2SS address is held by the witness script it is the hash of; no
\* address is the empty script.
NoAddress == <<>>

VARIABLES
  chain,          \* state.chain: the headers, the trusted one first
  signatoryKeys,  \* state.signatoryKeys: key string -> committed secp256k1 key
  processedTxs,   \* state.processedTxs: the txids that are keys of the object
  utxos,          \* state.utxos
  minted,         \* the mint calls made on the coin ledger
  validators,     \* context.validators, entries in insertion order
  tx,             \* the transaction txHandler ran last
  error,          \* the error it threw, "" when it returned
  reinserts,      \* re-insertions applied to the validator map (selector runs)
  signatorySets,  \* state.signatorySets: P2SS address -> signatory set
  currentP2ssAddress,  \* state.currentP2ssAddress
  bitcoind        \* the Bitcoin node: blocks on its chain above the trusted one

vars == <<chain, signatoryKeys, processedTxs, utxos, minted, validators, tx, error, reinserts,
          signatorySets, currentP2ssAddress, bitcoind>>

\* The peg's state without the signatory sets: the fields the initializer
\* of index.js builds.
pegState ==
  [chain |-> chain, signatoryKeys |-> signatoryKeys,
   processedTxs |-> processedTxs, utxos |-> utxos]

InitPeg ==
  /\ chain = initializer.chain
  /\ signatoryKeys = initializer.signatoryKeys
  /\ processedTxs = initializer.processedTxs
  /\ utxos = initializer.utxos
  /\ minted = <<>>
  /\ bitcoind = 0
  /\ tx = NoTx
  /\ error = ""
  /\ reinserts = 0
  /\ signatorySets = <<>>
  /\ currentP2ssAddress = NoAddress

Init ==
  /\ InitPeg
  /\ validators \in OrderedMaps(ValidatorKeys, Cardinality(ValidatorKeys))

\* One transaction through txHandler; transactions are applied one at a
\* time.  The state object is the handler's to write: what it wrote before
\* it threw stays written.
Deliver(t) ==
  LET r == txHandler(pegState, t, validators)
  IN  /\ tx = NoTx
      /\ chain' = r.state.chain
      /\ signatoryKeys' = r.state.signatoryKeys
      /\ processedTxs' = r.state.processedTxs
      /\ utxos' = r.state.utxos
      /\ tx' = t
      /\ error' = r.error
      /\ UNCHANGED <<minted, bitcoind, validators, reinserts, signatorySets, currentP2ssAddress>>

DeliverHeaders == \E t \in HeadersTxs : Deliver(t)

DeliverDeposit == \E t \in DepositTxs : Deliver(t)

DeliverSignatoryKey == \E t \in SignatoryKeyTxs : Deliver(t)

DeliverUnknown == Deliver(UnknownTx)

\* The submitter reads the outcome of its transaction (the error, if one
\* was thrown); the next transaction can then be applied.
checkResult ==
  /\ tx # NoTx
  /\ tx' = NoTx
  /\ error' = ""
  /\ UNCHANGED <<chain, signatoryKeys, processedTxs, utxos, minted, bitcoind, validators, reinserts,
                 signatorySets, currentP2ssAddress>>

\* The staking handler of the test application: the key staked to gets
\* voting power 10.
Staking ==
  \E k \in ValidatorKeys :
    /\ tx = NoTx
    /\ validators' = setPower(validators, toBase64(k), 10)
    /\ validators' # validators
    /\ UNCHANGED <<chain, signatoryKeys, processedTxs, utxos, minted, bitcoind, tx, error, reinserts,
                   signatorySets, currentP2ssAddress>>

Next ==
  \/ DeliverHeaders
  \/ DeliverDeposit
  \/ DeliverSignatoryKey
  \/ DeliverUnknown
  \/ checkResult
  \/ Staking

Spec == Init /\ [][Next]_vars

\* ------------------------------------------------------------------------
\* Deposits (C1 - C5)
\* ------------------------------------------------------------------------

\* Fee kept from a deposit, in units of 10^4 satoshi: a deposit of 50 BTC
\* credits 4999990000 satoshi.
DEPOSIT_FEE == 1

\* A step in which txHandler ran a transaction of the given kind.
Ran(kind) == tx = NoTx /\ tx'.kind = kind

\* What a deposit has to show: a stored header at the height the proof
\* names, a proof that adds up to that header's Merkle root, and exactly one
\* matched txid, the transaction's own.
ProofValid(c, t) ==
  /\ \E i \in 1..Len(c) : c[i].height = t.proof.height
  /\ \A i \in 1..Len(c) :
       c[i].height = t.proof.height => t.proof.root = c[i].merkleRoot
  /\ Len(t.proof.txids) = 1
  /\ t.proof.txids[1] = getTxHash(t.transaction)

AlreadyProcessed == "Deposit transaction has already been processed"

\* C1 as stated: a deposit whose txid is already recorded is rejected as
\* AlreadyProcessed and adds no UTXO, and a deposit that is accepted makes
\* the UTXO list exactly one entry longer: submitted twice, a valid deposit
\* adds one UTXO, not two and not none.
C1_DepositOnce ==
  [][Ran("deposit") =>
       /\ getTxHash(tx'.transaction) \in processedTxs =>
            error' = AlreadyProcessed /\ utxos' = utxos
       /\ error' = "" => Len(utxos') = Len(utxos) + 1]_vars

\* C2 as stated: a deposit rejected for an unknown height, a proof that does
\* not add up to the header's Merkle root, or a proof that does not yield
\* exactly the transaction's txid, leaves chain, processedTxs, utxos and the
\* key registry as they were.
C2_RejectedDepositChangesNothing ==
  [][(Ran("deposit") /\ ~ProofValid(chain, tx') /\ error' # "") =>
       UNCHANGED <<chain, processedTxs, utxos, signatoryKeys>>]_vars

\* C3 as stated: an accepted deposit records the txid, appends exactly one
\* UTXO carrying the paid amount, and mints amount - deposit fee to the
\* committed recipient.
C3_DepositSideEffects ==
  [][(Ran("deposit") /\ error' = "") =>
       /\ processedTxs' = processedTxs \cup {getTxHash(tx'.transaction)}
       /\ Len(utxos') = Len(utxos) + 1
       /\ utxos'[Len(utxos')].amount = tx'.transaction.amount
       /\ minted' = Append(minted, [address |-> tx'.transaction.recipient,
                                    amount  |-> tx'.transaction.amount - DEPOSIT_FEE])]_vars

\* C4 as stated: a deposit of a transaction with no output to a tracked P2SS
\* address is rejected, even under a valid proof: no txid recorded, no UTXO
\* appended, nothing minted.
C4_NotPeggedPaymentRejected ==
  [][(Ran("deposit") /\ ~tx'.transaction.paysP2ss /\ ProofValid(chain, tx')
        /\ getTxHash(tx'.transaction) \notin processedTxs) =>
       /\ error' # ""
       /\ processedTxs' = processedTxs
       /\ utxos' = utxos
       /\ minted' = minted]_vars

\* C5: a deposit is accepted only if its proof, checked against the Merkle
\* root of the stored header at the stated height, yields exactly one txid
\* and that txid is the id of the submitted transaction.
C5_AcceptedDepositIsProved ==
  (tx.kind = "deposit" /\ error = "") => ProofValid(chain, tx)

\* An accepted deposit at a height above the trusted header.
C5_Witness ==
  /\ tx.kind = "deposit"
  /\ error = ""
  /\ tx.proof.height > StartHeight
  /\ getTxHash(tx.transaction) \in processedTxs

\* ------------------------------------------------------------------------
\* Signatory keys (C6 - C8)
\* ------------------------------------------------------------------------

\* The entries of the registry a step wrote.
Written(k) ==
  /\ k \in DOMAIN signatoryKeys'
  /\ k \notin DOMAIN signatoryKeys \/ signatoryKeys'[k] # signatoryKeys[k]

\* C6: a SignatoryKey transaction is accepted only if its signature verifies
\* the submitted key under the consensus key the selector places at
\* signatory_index, and every registry entry key -> secp256k1 key is written
\* by a transaction signed over that secp256k1 key with that same key.
C6_Ed25519Authentication ==
  [][/\ (Ran("signatoryKey") /\ error' = "") =>
          LET set == getSignatorySet(validators)
              n   == tx'.signatoryIndex.n
          IN  /\ tx'.signatoryIndex.isInteger
              /\ n >= 0 /\ n < Len(set)
              /\ ed25519Verify(tx'.signature, tx'.signatoryKey,
                               fromBase64(set[n + 1].validatorKey))
              /\ Written(set[n + 1].validatorKey) \/ signatoryKeys' = signatoryKeys
     /\ \A k \in DOMAIN signatoryKeys' :
          Written(k) =>
            /\ Ran("signatoryKey")
            /\ tx'.signature = ed25519Sign(fromBase64(k), signatoryKeys'[k])
    ]_vars

\* The second-ranked validator has committed a key under its own signature.
C6_Witness ==
  /\ tx.kind = "signatoryKey"
  /\ error = ""
  /\ tx.signatoryIndex.n = 1
  /\ Len(validators) = 2
  /\ tx.signature.signer = fromBase64(getSignatorySet(validators)[2].validatorKey)
  /\ signatoryKeys[getSignatorySet(validators)[2].validatorKey] = tx.signatoryKey

\* The defects C7 names, one at a time, in a transaction of buffers and an
\* integer index.
WellTyped(t) ==
  t.signatoryIndex.isInteger /\ t.signatoryKey.isBuffer /\ t.signature.isBuffer

BadIndexOnly(t, vals) ==
  /\ WellTyped(t)
  /\ t.signatoryIndex.n < 0 \/ t.signatoryIndex.n >= Len(getSignatorySet(vals))
  /\ t.signatoryKey.length = SIGNATORY_KEY_LENGTH
  /\ t.signature.length = SIGNATURE_LENGTH

BadKeyLengthOnly(t, vals) ==
  /\ WellTyped(t)
  /\ t.signatoryIndex.n >= 0 /\ t.signatoryIndex.n < Len(getSignatorySet(vals))
  /\ t.signatoryKey.length # SIGNATORY_KEY_LENGTH
  /\ t.signature.length = SIGNATURE_LENGTH

BadSignatureOnly(t, vals) ==
  /\ WellTyped(t)
  /\ t.signatoryIndex.n >= 0 /\ t.signatoryIndex.n < Len(getSignatorySet(vals))
  /\ t.signatoryKey.length = SIGNATORY_KEY_LENGTH
  /\ t.signature.length = SIGNATURE_LENGTH
  /\ ~ed25519Verify(t.signature, t.signatoryKey,
        fromBase64(getSignatorySet(vals)[t.signatoryIndex.n + 1].validatorKey))

\* C7 as stated: a SignatoryKey transaction with an index outside the
\* selector output, a key of the wrong length, or a signature that does not
\* verify is rejected with the error of that defect (invalid index, invalid
\* key length, invalid signature) and changes nothing.
C7_SignatoryKeyRejections ==
  [][Ran("signatoryKey") =>
       /\ BadIndexOnly(tx', validators) => error' = "Invalid signatory index"
       /\ BadKeyLengthOnly(tx', validators) => error' = "Invalid signatory key length"
       /\ BadSignatureOnly(tx', validators) => error' = "Invalid signature"
       /\ (BadIndexOnly(tx', validators) \/ BadKeyLengthOnly(tx', validators)
             \/ BadSignatureOnly(tx', validators)) =>
            UNCHANGED <<chain, processedTxs, utxos, signatoryKeys, minted, validators>>
    ]_vars

\* C8 as stated: the registry only ever holds keys of 33 bytes that are
\* compressed secp256k1 points.
C8_RegistryHoldsPoints ==
  \A k \in DOMAIN signatoryKeys : publicKeyVerify(signatoryKeys[k])

\* C23 as stated: when a deposit of a Bitcoin transaction T that was never
\* accepted (its txid was not recorded) is rejected for its proof, a deposit
\* of T with a valid proof that is handled next does not fail with
\* AlreadyProcessed.
C23_RejectedDepositDoesNotBlock ==
  [][(/\ Ran("deposit")
      /\ getTxHash(tx'.transaction) \notin processedTxs
      /\ error' # "")
       => \A later \in DepositTxs :
            (later.transaction = tx'.transaction /\ ProofValid(chain', later))
              => txHandler(pegState', later, validators').error
                   # AlreadyProcessed]_vars

\* ------------------------------------------------------------------------
\* Header relaying (C22)
\* ------------------------------------------------------------------------

\* Blocks the Bitcoin node mines above the trusted header, at most.
MaxMined == 103

\* rpc.generateToAddress(n, address) of the tests: 101 blocks, or 1.
Generated == {1, 101}

\* rpc.getBlockHeader for the heights from..to above the trusted header;
\* the node of the tests has one branch.
BitcoinHeaders(from, to) ==
  [i \in 1..(to - from + 1) |-> Header(from + i - 1, 0)]

\* relay.step(): the headers transaction that carries the node's headers
\* above the peg's tip, up to the node's best block.
relayStep(headers, best) ==
  Tx("headers",
     BitcoinHeaders(headers[Len(headers)].height - StartHeight + 1, best),
     OtherPayment, NoProof, NotAnInteger, NotABuffer, NoSignature)

InitRelay ==
  /\ InitPeg
  /\ validators = <<>>

\* The test mines, between two transactions.
generateToAddress ==
  \E n \in Generated :
    /\ tx = NoTx
    /\ bitcoind + n <= MaxMined
    /\ bitcoind' = bitcoind + n
    /\ UNCHANGED <<chain, signatoryKeys, processedTxs, utxos, minted, validators,
                   tx, error, reinserts, signatorySets, currentP2ssAddress>>

\* A relay step when the node is ahead of the peg: the transaction goes
\* through txHandler.
RelayStep ==
  /\ chain[Len(chain)].height - StartHeight < bitcoind
  /\ Deliver(relayStep(chain, bitcoind))

NextRelay ==
  \/ generateToAddress
  \/ RelayStep
  \/ checkResult

SpecRelay == InitRelay /\ [][NextRelay]_vars

KeyC == <<0, 2>>

KeyD == <<30, 0>>

SelectorKeys == {KeyA, KeyB, KeyC, KeyD}

\* A validator map of n entries, more than the selector keeps: entry i has
\* the raw key <<i mod 64, i div 64>> and one of three voting powers.
LargeMap(n) ==
  [i \in 1..n |-> <<toBase64(<<i % 64, i \div 64>>), 5 * (1 + (i % 3))>>]

SelectorMaps ==
  OrderedMaps(SelectorKeys, MaxValidators)
    \cup {LargeMap(MAX_SIGNATORIES), LargeMap(MAX_SIGNATORIES + 2)}

\* The registries a validator map is paired with: any of the keys of a
\* small map committed; every other key of a large map.
Registries(vals) ==
  IF Len(vals) <= MaxValidators + 1
    THEN {[k \in ks |-> Point1] : ks \in SUBSET {toBase64(k) : k \in SelectorKeys}}
    ELSE {[k \in {vals[i][1] : i \in {j \in 1..Len(vals) : j % 2 = 0}} |-> Point1]}

\* delete validators[k]; validators[k] = p for the entry at position i: the
\* entry moves to the end of the insertion order.
reinsert(vals, i) ==
  Append(deleteKey(vals, vals[i][1]), vals[i])

\* The entries re-inserted: any of a small map, the first and the last of a
\* large one.
ReinsertChoices(vals) ==
  IF Len(vals) <= MaxValidators + 1 THEN 1..Len(vals)
  ELSE {1, Len(vals)}

InitSelector ==
  /\ chain = initializer.chain
  /\ processedTxs = initializer.processedTxs
  /\ utxos = initializer.utxos
  /\ minted = <<>>
  /\ bitcoind = 0
  /\ tx = NoTx
  /\ error = ""
  /\ reinserts = 0
  /\ signatorySets = <<>>
  /\ currentP2ssAddress = NoAddress
  /\ validators \in SelectorMaps
  /\ signatoryKeys \in Registries(validators)

\* A validator leaves the map and joins again with the same power.
Reinsert ==
  \E i \in ReinsertChoices(validators) :
    /\ reinserts < MaxReinserts
    /\ validators' = reinsert(validators, i)
    /\ reinserts' = reinserts + 1
    /\ UNCHANGED <<chain, signatoryKeys, processedTxs, utxos, minted, bitcoind, tx, error,
                   signatorySets, currentP2ssAddress>>

NextSelector == Reinsert

SpecSelector == InitSelector /\ [][NextSelector]_vars

\* The selector's output holds the same entries as the map's first
\* Len(output) sorted entries do: every member is an entry of the map.
IsEntry(vals, member) ==
  \E i \in 1..Len(vals) :
    vals[i] = <<member.validatorKey, member.votingPower>>

\* C9 as stated: sorted by voting power descending, equal powers by
\* consensus key (raw bytes) descending.
C9_TieBreakBytesDescending ==
  LET set == getSignatorySet(validators)
  IN  \A i, j \in 1..Len(set) :
        i < j =>
          \/ set[i].votingPower > set[j].votingPower
          \/ /\ set[i].votingPower = set[j].votingPower
             /\ SeqLess(fromBase64(set[j].validatorKey), fromBase64(set[i].validatorKey))

\* C9 amended: sorted by voting power descending, equal powers by the base64
\* string of the consensus key ascending (code units); every member is an
\* entry of the validator map.
C9_TieBreakStringAscending ==
  LET set == getSignatorySet(validators)
  IN  /\ \A i \in 1..Len(set) : IsEntry(validators, set[i])
      /\ \A i, j \in 1..Len(set) :
           i < j =>
             \/ set[i].votingPower > set[j].votingPower
             \/ /\ set[i].votingPower = set[j].votingPower
                /\ SeqLess(set[i].validatorKey, set[j].validatorKey)

\* {K1: 5, K2: 5} with K1 < K2 (as bytes and as strings), K2 inserted first:
\* the selector returns [K1, K2].
C9_Witness ==
  /\ validators = <<<<toBase64(KeyC), 5>>, <<toBase64(KeyA), 5>>>>
  /\ SeqLess(KeyA, KeyC)
  /\ getSignatorySet(validators) =
       <<[validatorKey |-> toBase64(KeyA), votingPower |-> 5],
         [validatorKey |-> toBase64(KeyC), votingPower |-> 5]>>

\* C10: the selector's output does not depend on the insertion order of the
\* validator map (moving any entry to the end of the order leaves it
\* unchanged, and so does every sequence of such moves), it has
\* min(|V|, MAX_SIGNATORIES) members, and the signatories and the threshold
\* the witness script is built from are the same for every insertion order.
C10_SelectorDeterminism ==
  LET set         == getSignatorySet(validators)
      signatories == scriptSignatories(validators, signatoryKeys)
  IN  /\ Len(set) = Min(Len(validators), MAX_SIGNATORIES)
      /\ \A i \in ReinsertChoices(validators) :
           LET moved == scriptSignatories(reinsert(validators, i), signatoryKeys)
           IN  /\ getSignatorySet(reinsert(validators, i)) = set
               /\ moved = signatories
               /\ getVotingPowerThreshold(moved) = getVotingPowerThreshold(signatories)

\* A map of more entries than the selector keeps, with its insertion order
\* changed, cut to MAX_SIGNATORIES members.
C10_Witness ==
  /\ Len(validators) > MAX_SIGNATORIES
  /\ reinserts > 0
  /\ Len(getSignatorySet(validators)) = MAX_SIGNATORIES

\* ------------------------------------------------------------------------
\* Committing keys and assembling the script (C11, C12, C20)
\* ------------------------------------------------------------------------

\* The secp256k1 keys of two more wallets.
Point2 == [isBuffer |-> TRUE, length |-> SIGNATORY_KEY_LENGTH, id |-> "P2", point |-> TRUE]

Point3 == [isBuffer |-> TRUE, length |-> SIGNATORY_KEY_LENGTH, id |-> "P3", point |-> TRUE]

Point4 == [isBuffer |-> TRUE, length |-> SIGNATORY_KEY_LENGTH, id |-> "P4", point |-> TRUE]

\* The wallet key each validator commits.
walletKey(k) ==
  IF k = KeyA THEN Point1 ELSE IF k = KeyB THEN Point2
  ELSE IF k = KeyC THEN Point3 ELSE Point4

\* Voting powers the consensus layer hands out, zero among them.
ScriptPowers == {0, 5, 10}

OrderedMapsOver(keys, n, powers) ==
  UNION {{m \in [1..len -> {<<toBase64(k), p>> : k \in keys, p \in powers}] :
            \A i, j \in 1..len : i # j => m[i][1] # m[j][1]} :
         len \in 0..Min(n, Cardinality(keys))}

\* commitPubkey of the signatory client: the transaction it sends, or the
\* error it throws before sending one.
commitPubkey(vals, k, signatoryPub) ==
  LET signatorySet == getSignatorySet(vals)
      found == {i \in 1..Len(signatorySet) :
                  signatorySet[i].validatorKey = toBase64(k)}
      signatoryIndex == (CHOOSE i \in found : \A j \in found : i <= j) - 1
  IN  IF ~publicKeyVerify(signatoryPub)
        THEN [tx |-> NoTx, error |-> "Invalid signatory public key"]
      ELSE IF found = {}
        THEN [tx |-> NoTx, error |-> "Given validator key not found in validator set"]
      ELSE [tx |-> Tx("signatoryKey", <<>>, OtherPayment, NoProof,
                      Index(signatoryIndex), signatoryPub,
                      ed25519Sign(k, signatoryPub)),
            error |-> ""]

InitScript ==
  /\ InitPeg
  /\ validators \in OrderedMapsOver(SelectorKeys, MaxValidators, ScriptPowers)

\* A validator runs commitPubkey with its wallet key; what it sends goes
\* through txHandler.
CommitPubkey ==
  \E k \in SelectorKeys :
    LET c == commitPubkey(validators, k, walletKey(k))
    IN  IF c.error # ""
          THEN /\ tx = NoTx
               /\ error' = c.error
               /\ UNCHANGED <<chain, signatoryKeys, processedTxs, utxos, minted, bitcoind,
                              validators, tx, reinserts, signatorySets,
                              currentP2ssAddress>>
          ELSE Deliver(c.tx)

NextScript ==
  \/ CommitPubkey
  \/ checkResult

SpecScript == InitScript /\ [][NextScript]_vars

\* The number the script compares the sum with: the operand pushed right
\* before the final comparison, read as a script number.
embeddedThreshold(script) == scriptNum(script[Len(script) - 1].bytes)

\* C11 as stated: the threshold in a witness script is ceil(2 * sum / 3)
\* with the sum taken over every member of the truncated signatory set,
\* also when some of them have committed no key.
C11_ThresholdOverTruncatedSet ==
  LET w == createWitnessScript(validators, signatoryKeys)
  IN  w.error = "" =>
        embeddedThreshold(w.script) =
          value(getVotingPowerThreshold(getSignatorySet(validators)))

\* The witness in which exactly the signatories at the script positions in
\* `signed` have signed.
witnessOf(signatories, signed) ==
  evalScript(createScriptSig([k \in 1..Len(signatories) |->
                                IF k \in signed THEN signatories[k].pubkey ELSE ""]),
             <<>>, <<>>, <<>>).stack

signedPower(signatories, signed) ==
  sumOver([k \in 1..Len(signatories) |->
             IF k \in signed THEN signatories[k].votingPower ELSE 0],
          Len(signatories))

\* C12 as stated: the witness script (of a signatory set with voting power)
\* accepts exactly when the summed voting power of the signatories whose
\* signature checks is greater than or equal to the threshold.
C12_ScriptAcceptsAtThreshold ==
  LET w == createWitnessScript(validators, signatoryKeys)
      signatories == scriptSignatories(validators, signatoryKeys)
  IN  w.error = "" /\ value(w.threshold) > 0 =>
        \A signed \in SUBSET (1..Len(signatories)) :
          scriptAccepts(w.script, witnessOf(signatories, signed))
            <=> signedPower(signatories, signed) >= value(w.threshold)

\* C20 as stated: no script is emitted for a signatory set of total voting
\* power 0 (the build fails instead), so no emitted script has threshold 0.
C20_NoScriptForZeroPower ==
  LET w == createWitnessScript(validators, signatoryKeys)
  IN  /\ totalVotingPower(getSignatorySet(validators)) = num(0) => w.error # ""
      /\ w.error = "" => embeddedThreshold(w.script) # 0

\* ------------------------------------------------------------------------
\* Script emission for large voting powers: validator maps whose powers
\* reach 2^31 - 1, so that the sum and the threshold pass 2^32.

\* Voting powers of one and of four bytes.
EmissionPowers == {200, 2147483647}

InitEmission ==
  /\ InitPeg
  /\ validators \in OrderedMapsOver(SelectorKeys, Cardinality(SelectorKeys),
                                    EmissionPowers)

SpecEmission == InitEmission /\ [][NextScript]_vars

\* C21 as stated: the bytes uint produces for a voting power of a committed
\* signatory, and for the threshold, read as a Bitcoin script number
\* (little-endian, the top bit of the last byte the sign) give the number
\* again.
C21_UintRoundTrip ==
  LET signatories == scriptSignatories(validators, signatoryKeys)
      threshold   == getVotingPowerThreshold(signatories)
  IN  /\ \A i \in 1..Len(signatories) :
           uint(num(signatories[i].votingPower)).error = "" =>
             scriptNum(uint(num(signatories[i].votingPower)).hex)
               = signatories[i].votingPower
      /\ uint(threshold).error = "" =>
           num(scriptNum(uint(threshold).hex)) = threshold

\* C25 as stated: for 1 to MAX_SIGNATORIES committed signatories with
\* voting powers in [0, 2^32) and a positive total, createWitnessScript
\* returns a script.
C25_EmissionSucceeds ==
  LET signatories == scriptSignatories(validators, signatoryKeys)
  IN  /\ Len(signatories) \in 1..MAX_SIGNATORIES
      /\ \A i \in 1..Len(signatories) :
           num(signatories[i].votingPower).hi \in 0..65535
      /\ totalVotingPower(signatories) # num(0)
      => createWitnessScript(validators, signatoryKeys).error = ""

\* ------------------------------------------------------------------------
\* Signing a disbursal: the signatory client and the signing coordinator
\* ------------------------------------------------------------------------

\* Bounds of the disbursals of the model: inputs and user outputs of a
\* SigningTx, and the inputs of one that is longer than MIN_RELAY_FEE bytes.
MaxInputs == 2

MaxOutputs == 3

ManyInputs == 25

\* getP2ssInfo: the script of a signatory set and its P2WSH address.
getP2ssInfo(signatorySet, network) ==
  LET p2wsh(p2ss) ==
        [address |-> p2ss.script, script |-> p2ss.script, error |-> p2ss.error]
  IN  p2wsh(createWitnessScript(signatorySet.validators, signatorySet.signatoryKeys))

\* A SigningTx: inputs (UTXOs), user outputs, and the signatures submitted
\* so far, a table from the index of a signatory to its signatures, one per
\* input.  null is the record with isNull.
NoSigningTx ==
  [isNull |-> TRUE, inputs |-> <<>>, outputs |-> <<>>, signatures |-> <<>>]

NoSignedTx == [isNull |-> TRUE, tx |-> NoBitcoinTx, witnesses |-> <<>>]

\* UTXOs of 10^4 satoshi and of 6 BTC.
InputAmounts == {10000, 600000000}

Input(n, amount) == [txid |-> 7000 + n, index |-> 0, amount |-> amount]

InputLists ==
  {[i \in 1..n |-> Input(i, a)] : n \in 0..MaxInputs, a \in InputAmounts}
    \cup {[i \in 1..ManyInputs |-> Input(i, 10000)]}

\* Withdrawals: to a pay-to-script-hash script (23 bytes) for 500 or
\* 5 * 10^8 satoshi, and to a script of 1200 bytes for 10^4.
UserOutputs ==
  {[script |-> [id |-> "s", length |-> 23, redeem |-> <<>>], amount |-> a] :
     a \in {500, 500000000}}
    \cup {[script |-> [id |-> "long", length |-> 1200, redeem |-> <<>>], amount |-> 10000]}

OutputLists == UNION {[1..n -> UserOutputs] : n \in 0..MaxOutputs}

SigningTxs ==
  {[isNull |-> FALSE, inputs |-> ins, outputs |-> outs, signatures |-> <<>>] :
     ins \in InputLists, outs \in OutputLists}

\* The disbursal of the test: one output of 5 * 10^8 satoshi, paid from one
\* or two UTXOs of 6 BTC.
TestSigningTxs ==
  {s \in SigningTxs :
     /\ Len(s.inputs) \in 1..MaxInputs
     /\ \A i \in 1..Len(s.inputs) : s.inputs[i].amount = 600000000
     /\ Len(s.outputs) = 1
     /\ s.outputs[1].amount = 500000000 /\ s.outputs[1].script.id = "s"}

\* A Signature transaction: { signatures, signatoryIndex }.
SignatureTx(signatoryIndex, signatures) ==
  [kind |-> "signature", headers |-> <<>>, transaction |-> OtherPayment,
   proof |-> NoProof, signatoryIndex |-> signatoryIndex, signatoryKey |-> NotABuffer,
   signature |-> NoSignature, signatures |-> signatures]

\* secp.sign(sigHash of input i, priv): the signature of the holder of the
\* private key of `pub` over the sighash of input i of the disbursal.
secpSign(pub, i) == [by |-> pub.id, input |-> i]

\* signDisbursal of the signatory client: the Signature transaction it
\* sends, or the error it throws before sending one.  The loop reads
\* signatoryKeys[signatory.validatorKey].equals for each member of the set
\* in turn: at a member without a committed key that is a TypeError.
signDisbursal(sets, current, signatoryPub, network) ==
  LET send(signingTx, bitcoinTx, signatoryIndex) ==
        IF signingTx.isNull
          THEN [tx |-> NoTx, error |-> "No tx to be signed"]
        ELSE IF bitcoinTx.error # ""
          THEN [tx |-> NoTx, error |-> bitcoinTx.error]
        ELSE [tx |-> SignatureTx(Index(signatoryIndex),
                                 [i \in 1..Len(signingTx.inputs) |->
                                    secpSign(signatoryPub, i)]),
              error |-> ""]
      \* the loop stops at the first signatory without a key (it throws)
      \* or with the given key
      locate(signatorySet, signatoryKeyAndPower, stops) ==
        IF stops # {}
             /\ signatoryKeyAndPower[CHOOSE i \in stops : \A j \in stops : i <= j]
                  .validatorKey \notin DOMAIN signatorySet.signatoryKeys
          THEN [tx |-> NoTx,
                error |-> "TypeError: Cannot read property 'equals' of undefined"]
        ELSE IF stops = {}
          THEN [tx |-> NoTx, error |-> "Given signatory key not found in signatory set"]
        ELSE send(signatorySet.signingTx,
                  buildOutgoingTx(signatorySet.signingTx, signatorySet.validators,
                                  signatorySet.signatoryKeys, network),
                  (CHOOSE i \in stops : \A j \in stops : i <= j) - 1)
      search(signatorySet, signatoryKeyAndPower) ==
        locate(signatorySet, signatoryKeyAndPower,
               {i \in 1..Len(signatoryKeyAndPower) :
                  \/ signatoryKeyAndPower[i].validatorKey
                       \notin DOMAIN signatorySet.signatoryKeys
                  \/ signatorySet.signatoryKeys[signatoryKeyAndPower[i].validatorKey].id
                       = signatoryPub.id})
      sign(signatorySet) ==
        search(signatorySet, getSignatorySet(signatorySet.validators))
  IN  IF current \notin DOMAIN sets
        THEN [tx |-> NoTx, error |-> "TypeError: Cannot read property 'signatoryKeys' of undefined"]
      ELSE sign(sets[current])

\* The state the signing coordinator works on.
signingState ==
  [signatorySets |-> signatorySets, currentP2ssAddress |-> currentP2ssAddress]

\* The voting power of the signatories that have an entry in the table.
signedVotingPower(signatorySet, table) ==
  sumOver([j \in 1..Len(signatorySet) |->
             IF (j - 1) \in DOMAIN table THEN signatorySet[j].votingPower ELSE 0],
          Len(signatorySet))

\* The witness of input i of a finalized transaction: a slot for every
\* member of the signatory set, put in order by createScriptSig, and the
\* witness script.
witnessOfInput(signatorySet, table, i, script) ==
  [stack  |-> createScriptSig([j \in 1..Len(signatorySet) |->
                                 IF (j - 1) \in DOMAIN table THEN table[j - 1][i].by
                                 ELSE ""]),
   script |-> script]

\* No signatory is taken to have signed.
alreadySignedNever(signingTx, k) == FALSE

\* The signatory with index k has an entry in the signature table.
alreadySigned(signingTx, k) == k \in DOMAIN signingTx.signatures

\* The handler of a Signature transaction (spec 4.F): the index names a
\* member of the signatory set bound to the current address that has a
\* committed key (BadIndex), that has not signed yet (AlreadySigned), and
\* whose key verifies one signature per input (BadSignature).  At the
\* threshold the transaction moves to signedTx and signingTx is cleared.
signatureTx(state, t) ==
  LET current == state.currentP2ssAddress
      k       == t.signatoryIndex.n
      rejected(kind) == [state |-> state, error |-> kind]
      finalize(set, signatorySet, table, bitcoinTx, p2ss) ==
        [state |->
           [state EXCEPT !.signatorySets[current] =
              [@ EXCEPT !.signingTx = NoSigningTx,
                        !.signedTx =
                          [isNull    |-> FALSE,
                           tx        |-> bitcoinTx.tx,
                           witnesses |-> [i \in 1..Len(set.signingTx.inputs) |->
                                            witnessOfInput(signatorySet, table, i,
                                                           p2ss.script)]]]],
         error |-> ""]
      record(set, signatorySet, table, bitcoinTx) ==
        IF signedVotingPower(signatorySet, table)
             >= value(getVotingPowerThreshold(signatorySet))
          THEN finalize(set, signatorySet, table, bitcoinTx,
                        createWitnessScript(set.validators, set.signatoryKeys))
        ELSE [state |-> [state EXCEPT !.signatorySets[current].signingTx.signatures = table],
              error |-> ""]
      verify(set, signatorySet, key, bitcoinTx) ==
        IF \/ bitcoinTx.error # ""
           \/ Len(t.signatures) # Len(set.signingTx.inputs)
           \/ \E i \in 1..Len(t.signatures) : t.signatures[i] # secpSign(key, i)
          THEN rejected("BadSignature")
        ELSE record(set, signatorySet, (k :> t.signatures) @@ set.signingTx.signatures,
                    bitcoinTx)
      admit(set, signatorySet) ==
        IF ~t.signatoryIndex.isInteger \/ k < 0 \/ k >= Len(signatorySet)
          THEN rejected("BadIndex")
        ELSE IF signatorySet[k + 1].validatorKey \notin DOMAIN set.signatoryKeys
          THEN rejected("BadIndex")
        ELSE IF alreadySigned(set.signingTx, k) THEN rejected("AlreadySigned")
        ELSE verify(set, signatorySet,
                    set.signatoryKeys[signatorySet[k + 1].validatorKey],
                    buildOutgoingTx(set.signingTx, set.validators, set.signatoryKeys,
                                    "regtest"))
      handle(set) ==
        IF set.signingTx.isNull THEN rejected("BadFormat")
        ELSE admit(set, getSignatorySet(set.validators))
  IN  IF current \notin DOMAIN state.signatorySets THEN rejected("BadFormat")
      ELSE handle(state.signatorySets[current])

\* The validators that sign, each with its wallet key; a key of no wallet.
SigningKeys == {KeyA, KeyB, KeyC}

NoWallet == [isBuffer |-> TRUE, length |-> SIGNATORY_KEY_LENGTH, id |-> "P0", point |-> TRUE]

\* What anybody can submit as a Signature transaction: any index with a
\* signature made with any key, for a disbursal of one input; signatures
\* for more inputs; an index that is no integer.
SignatureTxs ==
  {SignatureTx(Index(k), <<secpSign(p, 1)>>) :
     k \in -1..Cardinality(SigningKeys),
     p \in {walletKey(v) : v \in SigningKeys} \cup {NoWallet}}
    \cup {SignatureTx(Index(0), [i \in 1..n |-> secpSign(Point1, i)]) : n \in 2..MaxInputs}
    \cup {SignatureTx(NotAnInteger, <<secpSign(Point1, 1)>>)}

\* The registries over the keys of a validator map: each key committed or
\* not, to the key of the validator's wallet.
WalletRegistries(vals) ==
  {[k \in ks |-> walletKey(fromBase64(k))] :
     ks \in SUBSET {vals[i][1] : i \in 1..Len(vals)}}

\* The validator map of the test: one validator with power 10.
TestMaps == {<<<<toBase64(KeyB), 10>>>>}

\* The peg with a disbursal to sign: any signatory set with the disbursal
\* of the test, or the signatory set of the test with any disbursal.
InitSigning ==
  /\ chain = initializer.chain
  /\ processedTxs = initializer.processedTxs
  /\ utxos = initializer.utxos
  /\ minted = <<>>
  /\ bitcoind = 0
  /\ tx = NoTx
  /\ error = ""
  /\ reinserts = 0
  /\ \E pending \in SigningTxs :
       /\ \/ /\ validators \in OrderedMapsOver(SigningKeys, Cardinality(SigningKeys), VotingPowers)
             /\ pending \in TestSigningTxs
          \/ validators \in TestMaps
       /\ signatoryKeys \in WalletRegistries(validators)
       /\ LET bound(info) ==
                IF info.error # ""
                  THEN /\ currentP2ssAddress = NoAddress
                       /\ signatorySets = <<>>
                  ELSE /\ currentP2ssAddress = info.address
                       /\ signatorySets =
                            (info.address :>
                               [validators |-> validators, signatoryKeys |-> signatoryKeys,
                                signingTx |-> pending, signedTx |-> NoSignedTx])
          IN  bound(getP2ssInfo([validators |-> validators,
                                 signatoryKeys |-> signatoryKeys], "regtest"))

\* A Signature transaction goes through its handler.
DeliverSignature(t) ==
  \E r \in {signatureTx(signingState, t)} :
    /\ tx = NoTx
    /\ signatorySets' = r.state.signatorySets
    /\ currentP2ssAddress' = r.state.currentP2ssAddress
    /\ tx' = t
    /\ error' = r.error
    /\ UNCHANGED <<chain, signatoryKeys, processedTxs, utxos, minted, bitcoind, validators, reinserts>>

\* A signatory runs signDisbursal with its wallet key.
SignDisbursal ==
  \E v \in SigningKeys :
    \E c \in {signDisbursal(signatorySets, currentP2ssAddress, walletKey(v), "regtest")} :
      IF c.error # ""
        THEN /\ tx = NoTx
             /\ error' = c.error
             /\ UNCHANGED <<chain, signatoryKeys, processedTxs, utxos, minted, bitcoind,
                            validators, tx, reinserts, signatorySets,
                            currentP2ssAddress>>
        ELSE DeliverSignature(c.tx)

SubmitSignature == \E t \in SignatureTxs : DeliverSignature(t)

NextSigning ==
  \/ SignDisbursal
  \/ SubmitSignature
  \/ checkResult

SpecSigning == InitSigning /\ [][NextSigning]_vars

\* ------------------------------------------------------------------------
\* The disbursal builder (C13 - C15)
\* ------------------------------------------------------------------------

\* The signatory sets that have a disbursal to sign.
Pending == {a \in DOMAIN signatorySets : ~signatorySets[a].signingTx.isNull}

\* What buildOutgoingTx gives for the disbursal of the set at address a.
builtFor(a) ==
  buildOutgoingTx(signatorySets[a].signingTx, signatorySets[a].validators,
                  signatorySets[a].signatoryKeys, "regtest")

totalIn(signingTx) ==
  sumOver([i \in 1..Len(signingTx.inputs) |-> signingTx.inputs[i].amount],
          Len(signingTx.inputs))

totalUserAmounts(signingTx) ==
  sumOver([i \in 1..Len(signingTx.outputs) |-> signingTx.outputs[i].amount],
          Len(signingTx.outputs))

totalOut(btx) == sumOver([i \in 1..Len(btx.outs) |-> btx.outs[i].value], Len(btx.outs))

\* C13 as stated: fee conservation.  For every transaction buildOutgoingTx
\* returns, whatever the number of inputs and user outputs, the inputs are
\* worth the outputs plus a fee of at least MIN_RELAY_FEE and at least the
\* length of the transaction in bytes.
C13_FeeConservation ==
  \A a \in Pending :
    LET b == builtFor(a)
        feePaid == totalIn(signatorySets[a].signingTx) - totalOut(b.tx)
    IN  b.error = "" =>
          /\ feePaid >= MIN_RELAY_FEE
          /\ feePaid >= byteLength(b.tx)

\* C14 as stated: the build fails with 'Output amount exceeds input amount'
\* whenever the inputs less the user outputs added so far are not positive
\* after some output, and so the change output of every transaction built
\* is positive.
C14_PositiveChange ==
  \A a \in Pending :
    LET b == builtFor(a)
        s == signatorySets[a].signingTx
    IN  /\ (\E j \in 1..Len(s.outputs) :
              totalIn(s) - sumOver([i \in 1..j |-> s.outputs[i].amount], j) <= 0)
             => b.error = "Output amount exceeds input amount"
        /\ b.error = "" => b.tx.outs[Len(b.tx.outs)].value > 0

\* The fee of a disbursal: its length in bytes (the inputs, the user
\* outputs and a change output of 34 bytes), at least MIN_RELAY_FEE.
feeOf(signingTx) ==
  LET length == byteLength(
        [ins  |-> signingTx.inputs,
         outs |-> Append([i \in 1..Len(signingTx.outputs) |->
                            [script |-> signingTx.outputs[i].script]],
                         [script |-> [length |-> 34]])])
  IN  IF length > MIN_RELAY_FEE THEN length ELSE MIN_RELAY_FEE

\* q is fee / n rounded up.
IsCeilOfQuotient(q, fee, n) == q * n >= fee /\ (q - 1) * n < fee

\* C15: fee apportionment.  In every disbursal built, user output i is
\* worth amount_i - ceil(fee / n) and more than 0, the change output is the
\* last output and is worth the inputs less the user amounts (no fee is
\* taken from it); when the inputs cover the outputs and some user output
\* would not be left positive, the build fails with 'Output is not large
\* enough to pay fee'.
C15_FeeApportionment ==
  \A a \in Pending :
    LET b   == builtFor(a)
        s   == signatorySets[a].signingTx
        n   == Len(s.outputs)
        fee == feeOf(s)
    IN  /\ b.error = "" =>
             /\ Len(b.tx.outs) = n + 1
             /\ \A i \in 1..n :
                  /\ b.tx.outs[i].script = s.outputs[i].script
                  /\ IsCeilOfQuotient(s.outputs[i].amount - b.tx.outs[i].value, fee, n)
                  /\ b.tx.outs[i].value > 0
             /\ b.tx.outs[n + 1].script.id = "p2wsh"
             /\ b.tx.outs[n + 1].value = totalIn(s) - totalUserAmounts(s)
        /\ (/\ b.error # "Output amount exceeds input amount"
            /\ \E i \in 1..n : (s.outputs[i].amount - 1) * n < fee)
             => b.error = "Output is not large enough to pay fee"

\* The disbursal of the test signed: one output of 5 * 10^8 satoshi and a
\* fee of 1000 leave the user 499999000.
C15_Witness ==
  \E a \in DOMAIN signatorySets :
    /\ tx.kind = "signature"
    /\ error = ""
    /\ ~signatorySets[a].signedTx.isNull
    /\ Len(signatorySets[a].signedTx.tx.outs) = 2
    /\ signatorySets[a].signedTx.tx.outs[1].value = 499999000

\* ------------------------------------------------------------------------
\* Collecting signatures (C16 - C18)
\* ------------------------------------------------------------------------

\* A Signature transaction has just been handled.
SignatureHandled == tx = NoTx /\ tx'.kind = "signature"

\* The set the current address is bound to, before and after the step.
setBefore == signatorySets[currentP2ssAddress]
setAfter  == signatorySets'[currentP2ssAddress]

\* The step moved the pending disbursal to signedTx.
Finalized ==
  /\ ~setBefore.signingTx.isNull
  /\ setAfter.signingTx.isNull
  /\ ~setAfter.signedTx.isNull

\* Twice the total power of the members of a signatory set, and three times
\* the power of the members with the 0-based indices of the set `signers'.
twiceTotal(signatorySet) ==
  2 * sumOver([j \in 1..Len(signatorySet) |-> signatorySet[j].votingPower],
              Len(signatorySet))
thricePower(signatorySet, signers) ==
  3 * sumOver([j \in 1..Len(signatorySet) |->
                 IF (j - 1) \in signers THEN signatorySet[j].votingPower ELSE 0],
              Len(signatorySet))

\* The number of signatures in a witness stack.
RECURSIVE signaturesIn(_)
signaturesIn(stack) ==
  IF stack = <<>> THEN 0
  ELSE (IF Head(stack).by # "" THEN 1 ELSE 0) + signaturesIn(Tail(stack))

C24_SignatoryIndexConsistency ==
  currentP2ssAddress \in DOMAIN signatorySets =>
    LET set    == signatorySets[currentP2ssAddress]
        script == scriptSignatories(set.validators, set.signatoryKeys)
    IN  \A v \in SigningKeys :
          (/\ toBase64(v) \in DOMAIN set.signatoryKeys
           /\ set.signatoryKeys[toBase64(v)] = walletKey(v)
           /\ \E i \in 1..Len(getSignatorySet(set.validators)) :
                getSignatorySet(set.validators)[i].validatorKey = toBase64(v))
            => LET c == signDisbursal(signatorySets, currentP2ssAddress,
                                      walletKey(v), "regtest")
               IN  /\ c.error # "TypeError: Cannot read property 'equals' of undefined"
                   /\ c.error # "Given signatory key not found in signatory set"
                   /\ c.error = "" =>
                        /\ c.tx.signatoryIndex.n < Len(script)
                        /\ script[c.tx.signatoryIndex.n + 1].pubkey = walletKey(v).id

\* ------------------------------------------------------------------------
\* P2SS rotation (C19)
\* ------------------------------------------------------------------------

\* The signatory sets a run records, at most.
MaxSets == 3

\* The validators of the rotation: the two of the test.
RotationKeys == {KeyA, KeyB}

\* A signatory set as it is recorded under its address.
SignatorySetOf(vals, keys, pending) ==
  [validators |-> vals, signatoryKeys |-> keys,
   signingTx |-> pending, signedTx |-> NoSignedTx]

\* A UTXO of the peg, with the address that received it.
Utxo(txid, amount, address) ==
  [txid |-> txid, vout |-> 0, amount |-> amount, p2ssAddress |-> address]

\* A rotation that keeps the new set only.
rotateForgetful(sets, current, vals, keys) ==
  LET publish(info) ==
        IF info.error # "" \/ info.address = current
          THEN [signatorySets |-> sets, currentP2ssAddress |-> current]
          ELSE [signatorySets |->
                  (info.address :> SignatorySetOf(vals, keys, NoSigningTx)),
                currentP2ssAddress |-> info.address]
  IN  publish(getP2ssInfo([validators |-> vals, signatoryKeys |-> keys], "regtest"))

\* Rotation (spec 4.G), at the end of a block that changed the validator
\* map or the key registry: the address of the signatory set is derived
\* again; when it differs from the current one, the set is recorded under
\* its address, next to the sets recorded before, and its address becomes
\* the current one.  A set recorded before under that address is kept.
rotate(sets, current, vals, keys) ==
  LET publish(info) ==
        IF info.error # "" \/ info.address = current
          THEN [signatorySets |-> sets, currentP2ssAddress |-> current]
          ELSE [signatorySets |->
                  IF info.address \in DOMAIN sets THEN sets
                  ELSE (info.address :> SignatorySetOf(vals, keys, NoSigningTx)) @@ sets,
                currentP2ssAddress |-> info.address]
  IN  publish(getP2ssInfo([validators |-> vals, signatoryKeys |-> keys], "regtest"))

\* The peg with no signatory set yet, or with the set of its validators
\* and their keys as the current one, a disbursal pending or not, and the
\* UTXO of a deposit to its address or none.
InitRotation ==
  /\ chain = initializer.chain
  /\ processedTxs = initializer.processedTxs
  /\ minted = <<>>
  /\ bitcoind = 0
  /\ tx = NoTx
  /\ error = ""
  /\ reinserts = 0
  /\ validators \in OrderedMapsOver(RotationKeys, Cardinality(RotationKeys), VotingPowers)
  /\ signatoryKeys \in WalletRegistries(validators)
  /\ LET recorded(r) ==
           /\ currentP2ssAddress = r.currentP2ssAddress
           /\ IF r.currentP2ssAddress = NoAddress
                THEN /\ signatorySets = <<>>
                     /\ utxos = initializer.utxos
                ELSE /\ \E pending \in {NoSigningTx} \cup TestSigningTxs :
                          signatorySets =
                            (r.currentP2ssAddress :>
                               SignatorySetOf(validators, signatoryKeys, pending))
                     /\ utxos \in {initializer.utxos,
                                   <<Utxo(7002, 600000000, r.currentP2ssAddress)>>}
     IN  recorded(rotate(<<>>, NoAddress, validators, signatoryKeys))

\* The block of a SignatoryKey transaction sent by commitPubkey: the
\* transaction goes through txHandler, and the block ends with a rotation.
CommitPubkeyBlock ==
  \E k \in RotationKeys :
    \E c \in {commitPubkey(validators, k, walletKey(k))} :
      IF c.error # ""
        THEN /\ tx = NoTx
             /\ error' = c.error
             /\ UNCHANGED <<chain, signatoryKeys, processedTxs, utxos, minted, bitcoind,
                            validators, tx, reinserts, signatorySets,
                            currentP2ssAddress>>
        ELSE \E r \in {txHandler(pegState, c.tx, validators)} :
               \E g \in {rotate(signatorySets, currentP2ssAddress, validators,
                                r.state.signatoryKeys)} :
                 /\ tx = NoTx
                 /\ Cardinality(DOMAIN g.signatorySets) <= MaxSets
                 /\ chain' = r.state.chain
                 /\ signatoryKeys' = r.state.signatoryKeys
                 /\ processedTxs' = r.state.processedTxs
                 /\ utxos' = r.state.utxos
                 /\ tx' = c.tx
                 /\ error' = r.error
                 /\ signatorySets' = g.signatorySets
                 /\ currentP2ssAddress' = g.currentP2ssAddress
                 /\ UNCHANGED <<minted, bitcoind, validators, reinserts>>

\* The block of a staking transaction: a validator joins or its power
\* changes, and the block ends with a rotation.
StakingBlock ==
  \E k \in RotationKeys, power \in VotingPowers :
    \E vals \in {setPower(validators, toBase64(k), power)} :
      \E g \in {rotate(signatorySets, currentP2ssAddress, vals, signatoryKeys)} :
        /\ tx = NoTx
        /\ vals # validators
        /\ Cardinality(DOMAIN g.signatorySets) <= MaxSets
        /\ validators' = vals
        /\ signatorySets' = g.signatorySets
        /\ currentP2ssAddress' = g.currentP2ssAddress
        /\ UNCHANGED <<chain, signatoryKeys, processedTxs, utxos, minted, bitcoind, tx, error,
                       reinserts>>

NextRotation ==
  \/ CommitPubkeyBlock
  \/ StakingBlock
  \/ checkResult

SpecRotation == InitRotation /\ [][NextRotation]_vars

====
